---- MODULE Spec2Model ----
(***************************************************************************)
(* Model of the GitHub data collection engine:                             *)
(*   - GitHubAPI._get / _handle_api_errors and the retry session           *)
(*     (src/src/github_api.py),                                            *)
(*   - the pagination loops scrap_egy_contributors and scrap_non_egy_repos *)
(*     of GittHubDataCollector (src/src/data_collection.py),               *)
(*   - GitHubRepoExtractor.process_repo (src/src/repos_extractor.py).      *)
(* Each operation has its own specification over the shared variables:     *)
(*   Spec        the two pagination loops,                                 *)
(*   SpecGet     one call of _get,                                         *)
(*   SpecProcess one call of process_repo,                                 *)
(*   SpecPure    one call of _get_ci_cd_tool or of the package name        *)
(*               extraction of _get_dependencies on a drawn input,         *)
(*   SpecFile    one call of scrap_repos_file.                             *)
(***************************************************************************)
EXTENDS Integers, Sequences, FiniteSets, TLC

(***************************************************************************)
(* Bounds of the model.  per_page is 100 in the source                     *)
(* (data_collection.py:48 and :174); the model scales the page size down   *)
(* so that single pages, exact multiples of a page and several pages all   *)
(* occur among totals of at most MaxTotal items.                           *)
(***************************************************************************)
PerPage == 3
MaxTotal == 7
MaxStartPage == 2
MaxTarget == 5
MaxRequests == 5

\* Retry(total=5, ...) of _create_retry_session
RetryTotal == 5

Min(a, b) == IF a <= b THEN a ELSE b
Max(a, b) == IF a >= b THEN a ELSE b

\* ceil(n / d) for n >= 0, d >= 1 (used by the properties only)
CeilDiv(n, d) == (n + d - 1) \div d

(***************************************************************************)
(* The remote API.                                                         *)
(***************************************************************************)
\* No HTTP response at all: the transport gave up on a network failure.
NetErr == 0

\* status_forcelist of the retry policy
status_forcelist == {429, 500, 502, 503, 504}

\* HTTP statuses the server may answer with: every status that
\* _handle_api_errors names, the retried ones, and one unnamed status.
Statuses == {200, 204, 401, 403, 404, 409, 451, 418} \cup status_forcelist

\* The items a search endpoint serves for page p when tc items match,
\* PerPage items a page and an empty list past the last page.  Items are
\* identified by their rank 1..tc in the result order.
PageItems(tc, p) ==
    LET first == (p - 1) * PerPage + 1
        last  == Min(p * PerPage, tc)
    IN  IF last < first THEN << >>
        ELSE [i \in 1..(last - first + 1) |-> first + i - 1]

(***************************************************************************)
(* GitHubAPI._handle_api_errors: what the call yields for a response with  *)
(* the given status; hasReset tells whether the response carries the       *)
(* X-RateLimit-Reset header.  "payload" is response.json(), "none" is the  *)
(* return of None, "raise" is an exception leaving the method (the         *)
(* subscript response.headers["X-RateLimit-Reset"] raises KeyError when    *)
(* the header is missing).                                                 *)
(***************************************************************************)
handle_api_errors(status, hasReset) ==
    IF status = 200 THEN "payload"
    ELSE IF status = 403 THEN (IF hasReset THEN "none" ELSE "raise")
    ELSE IF status = 404 THEN "none"
    ELSE IF status = 451 THEN "none"
    ELSE IF status = 401 THEN "none"
    ELSE IF status = 204 THEN "none"
    ELSE IF status = 409 THEN "none"
    ELSE "none"

\* What _get yields to its caller once the transport has finished with
\* final outcome st (a status, or NetErr when the retries were exhausted
\* by network failures: http.get raises and _get has no handler).
GetResult(st, hasReset) ==
    IF st = NetErr THEN "raise" ELSE handle_api_errors(st, hasReset)

\* Everything a call of _get can yield to its caller
GetResults == {GetResult(st, hasReset) : st \in Statuses \cup {NetErr}, hasReset \in BOOLEAN}

VARIABLES
    \* ---- pagination loops ----
    collector,      \* "users": scrap_egy_contributors, "repos": scrap_non_egy_repos
    start_page,     \* argument start_page
    target_count,   \* argument total_count of scrap_non_egy_repos (0 for users)
    srvTotal,       \* number of matching items the server holds when the run starts
    page,           \* local variable page
    params_page,    \* params["page"]
    total_count,    \* local total_count of scrap_egy_contributors (-1: not yet assigned)
    repos_scraped,  \* local repos_scraped
    items,          \* items of the current response not yet iterated
    rows,           \* rows written to the CSV file after the header
    pc,             \* "loop", "items", "done" (returned), "raised"
    reqPages,       \* history: page number carried by each request sent
    tcFirst,        \* history: total_count of the first Success response (-1: none)
    tcLast,         \* history: total_count of the latest Success response (-1: none)
    static,         \* history: every Success response reported srvTotal
    failed,         \* history: a request ended in something else than Success
    lastStatus,     \* history: outcome of the latest request
    \* ---- one call of _get ----
    gPc,            \* "sending", "handling", "returned", "raised"
    gRetries,       \* Retry.total still available
    gAttempts,      \* HTTP attempts sent
    gStatus,        \* outcome of the latest attempt
    gHasReset,      \* latest response carries X-RateLimit-Reset
    gResult,        \* "payload", "none" or "raise" once the call is over
    \* ---- one call of process_repo ----
    row,            \* self.row, a dictionary: field name -> value
    prPc,           \* "start", "walk", "commits", "issues", "pulls", "tags",
                    \* "sbom", "ci", "done" (returned), "raised"
    stack,          \* the active _fetch_recursive generators, innermost last
    walked,         \* the paths yielded so far by the running walk
    prReqs,         \* history: the requests sent, with their outcomes
    tree,           \* which remote file tree the repository has
    \* ---- one call of a pure function ----
    pFn,            \* "ci": _get_ci_cd_tool, "deps": lines 165-171 of _get_dependencies
    pFiles,         \* self.row["filenames"] of the call
    pPackages,      \* the package names of the manifest
    pOut,           \* what the call returned
    pPc,            \* "call", "done"
    \* ---- one call of scrap_repos_file ----
    fUsers,         \* number of data rows of the users file
    from_row,       \* argument from_row (0: None)
    fRead,          \* rows the reader has consumed
    fI,             \* the index i that enumerate hands to the coming row
    fReqs,          \* history: the repos requests sent: row of the user, outcome
    fRows,          \* rows written to the repos file after the header
    fPc             \* "skip", "rows", "done" (returned), "raised"

collVars == << collector, start_page, target_count, srvTotal, page, params_page,
               total_count, repos_scraped, items, rows, pc, reqPages,
               tcFirst, tcLast, static, failed, lastStatus >>
getVars == << gPc, gRetries, gAttempts, gStatus, gHasReset, gResult >>
procVars == << row, prPc, stack, walked, prReqs, tree >>
pureVars == << pFn, pFiles, pPackages, pOut, pPc >>
fileVars == << fUsers, from_row, fRead, fI, fReqs, fRows, fPc >>
vars == << collVars, getVars, procVars, pureVars, fileVars >>

(***************************************************************************)
(* Initial values of the parts a specification does not run.               *)
(***************************************************************************)
CollIdle ==
    /\ collector = "none" /\ start_page = 1 /\ target_count = 0
    /\ srvTotal = 0 /\ page = 1 /\ params_page = 1 /\ total_count = -1
    /\ repos_scraped = 0 /\ items = << >> /\ rows = << >> /\ pc = "idle"
    /\ reqPages = << >> /\ tcFirst = -1 /\ tcLast = -1 /\ static = TRUE
    /\ failed = FALSE /\ lastStatus = -1

GetIdle ==
    /\ gPc = "idle" /\ gRetries = 0 /\ gAttempts = 0 /\ gStatus = -1
    /\ gHasReset = FALSE /\ gResult = "unset"

ProcIdle ==
    /\ row = << >> /\ prPc = "idle" /\ stack = << >> /\ walked = << >>
    /\ prReqs = << >> /\ tree = 1

PureIdle ==
    /\ pFn = "none" /\ pFiles = << >> /\ pPackages = << >> /\ pOut = << >>
    /\ pPc = "idle"

FileIdle ==
    /\ fUsers = 0 /\ from_row = 0 /\ fRead = 0 /\ fI = 0 /\ fReqs = << >>
    /\ fRows = << >> /\ fPc = "idle"

(***************************************************************************)
(* Pagination loops.  Init is the state at the top of the while loop,      *)
(* after the params dictionary was built and the header row written.       *)
(***************************************************************************)
CollInit ==
    /\ collector \in {"users", "repos"}
    /\ start_page \in 1..MaxStartPage
    /\ srvTotal \in 0..MaxTotal
    /\ target_count \in (IF collector = "repos" THEN 1..MaxTarget ELSE {0})
    /\ page = start_page
    /\ params_page = start_page
    /\ total_count = -1
    /\ repos_scraped = 0
    /\ items = << >>
    /\ rows = << >>
    /\ pc = "loop"
    /\ reqPages = << >>
    /\ tcFirst = -1 /\ tcLast = -1
    /\ static = TRUE
    /\ failed = FALSE
    /\ lastStatus = -1

Init == CollInit /\ GetIdle /\ ProcIdle /\ PureIdle /\ FileIdle

\* The bookkeeping of one request sent with page number p and answered
\* with outcome st (total_count tc on Success).
Record(p, st, hasReset, tc) ==
    /\ reqPages' = Append(reqPages, p)
    /\ lastStatus' = st
    /\ IF GetResult(st, hasReset) = "payload"
       THEN /\ tcFirst' = (IF tcFirst = -1 THEN tc ELSE tcFirst)
            /\ tcLast' = tc
            /\ static' = (static /\ tc = srvTotal)
            /\ failed' = failed
       ELSE /\ UNCHANGED << tcFirst, tcLast, static >>
            /\ failed' = TRUE

\* The total_count the stop test of scrap_egy_contributors works with
\* after a Success response reporting tc: the code assigns it anew from
\* every response.
ReadTotalCount_first_only(old, tc) == IF old = -1 THEN tc ELSE old

ReadTotalCount(old, tc) == tc

\* max_page = total_count // params["per_page"] + 1
max_page_floor(tc) == tc \div PerPage

max_page(tc) == tc \div PerPage + 1

\* scrap_egy_contributors, lines 62-66 and 84-85: set params["page"], send
\* the request; a truthy response starts the item loop, anything else
\* breaks (an exception leaves the function).
UsersRequestStep_no_break(st, hasReset, tc) ==
    /\ params_page' = page
    /\ Record(page, st, hasReset, tc)
    /\ IF GetResult(st, hasReset) = "payload"
       THEN /\ total_count' = ReadTotalCount(total_count, tc)
            /\ items' = PageItems(tc, page)
       ELSE /\ items' = << >>
            /\ UNCHANGED total_count
    /\ pc' = "items"
    /\ UNCHANGED << collector, start_page, target_count, srvTotal, page,
                    repos_scraped, rows >>

UsersRequestStep(st, hasReset, tc) ==
    /\ params_page' = page
    /\ Record(page, st, hasReset, tc)
    /\ IF GetResult(st, hasReset) = "payload"
       THEN /\ total_count' = ReadTotalCount(total_count, tc)
            /\ items' = PageItems(tc, page)
            /\ pc' = "items"
       ELSE /\ pc' = (IF GetResult(st, hasReset) = "raise" THEN "raised" ELSE "done")
            /\ UNCHANGED << total_count, items >>
    /\ UNCHANGED << collector, start_page, target_count, srvTotal, page,
                    repos_scraped, rows >>

UsersRequest ==
    /\ collector = "users" /\ pc = "loop"
    /\ \E st \in Statuses \cup {NetErr}, hasReset \in BOOLEAN, tc \in 0..MaxTotal :
          UsersRequestStep(st, hasReset, tc)
    /\ UNCHANGED << getVars, procVars, pureVars, fileVars >>

\* lines 69-72: one turn of the for loop, writer.writerow of the next item
UsersWriteItem ==
    /\ collector = "users" /\ pc = "items" /\ items # << >>
    /\ rows' = Append(rows, Head(items))
    /\ items' = Tail(items)
    /\ UNCHANGED << collector, start_page, target_count, srvTotal, page,
                    params_page, total_count, repos_scraped, pc, reqPages,
                    tcFirst, tcLast, static, failed, lastStatus >>
    /\ UNCHANGED << getVars, procVars, pureVars, fileVars >>

\* lines 75-83: after the for loop, page += 1, compute max_page, break
\* when page > max_page
UsersPageEnd ==
    /\ collector = "users" /\ pc = "items" /\ items = << >>
    /\ page' = page + 1
    /\ pc' = (IF page' > max_page(total_count) THEN "done" ELSE "loop")
    /\ UNCHANGED << collector, start_page, target_count, srvTotal,
                    params_page, total_count, repos_scraped, items, rows,
                    reqPages, tcFirst, tcLast, static, failed, lastStatus >>
    /\ UNCHANGED << getVars, procVars, pureVars, fileVars >>

(***************************************************************************)
(* scrap_non_egy_repos.                                                    *)
(***************************************************************************)
\* The page number the next request of scrap_non_egy_repos carries:
\* params["page"] is set once, from start_page, when params is built
\* (line 175) and the loop never assigns it again; the local page is only
\* incremented and logged.
ReposRequestPage == params_page

\* line 191, loop test false: the with blocks close and the call returns
ReposExit ==
    /\ collector = "repos" /\ pc = "loop"
    /\ ~(repos_scraped < target_count)
    /\ pc' = "done"
    /\ UNCHANGED << collector, start_page, target_count, srvTotal, page,
                    params_page, total_count, repos_scraped, items, rows,
                    reqPages, tcFirst, tcLast, static, failed, lastStatus >>
    /\ UNCHANGED << getVars, procVars, pureVars, fileVars >>

\* lines 191-199 and 227-228: loop test true, send the request; a truthy
\* response starts the item loop, anything else breaks.
ReposRequestStep(st, hasReset, tc) ==
    /\ Record(ReposRequestPage, st, hasReset, tc)
    /\ IF GetResult(st, hasReset) = "payload"
       THEN /\ items' = PageItems(tc, ReposRequestPage)
            /\ pc' = "items"
       ELSE /\ pc' = (IF GetResult(st, hasReset) = "raise" THEN "raised" ELSE "done")
            /\ UNCHANGED items
    /\ UNCHANGED << collector, start_page, target_count, srvTotal, page,
                    params_page, total_count, repos_scraped, rows >>

ReposRequest ==
    /\ collector = "repos" /\ pc = "loop"
    /\ repos_scraped < target_count
    /\ Len(reqPages) < MaxRequests
    /\ \E st \in Statuses \cup {NetErr}, hasReset \in BOOLEAN, tc \in 0..MaxTotal :
          ReposRequestStep(st, hasReset, tc)
    /\ UNCHANGED << getVars, procVars, pureVars, fileVars >>

\* lines 220-222: does the item loop break after the row just written,
\* n being the new value of repos_scraped
ItemLoopBreaks_never(n) == FALSE

ItemLoopBreaks(n) == n >= target_count

\* lines 201-226: one turn of the for loop: write the row, count it, break
\* out of the for loop once the count reached total_count; the code after
\* the for loop (page += 1) runs in either case.
ReposWriteItem ==
    /\ collector = "repos" /\ pc = "items" /\ items # << >>
    /\ rows' = Append(rows, Head(items))
    /\ repos_scraped' = repos_scraped + 1
    /\ IF ItemLoopBreaks(repos_scraped')
       THEN /\ items' = << >>
            /\ page' = page + 1
            /\ pc' = "loop"
       ELSE /\ items' = Tail(items)
            /\ UNCHANGED << page, pc >>
    /\ UNCHANGED << collector, start_page, target_count, srvTotal,
                    params_page, total_count, reqPages, tcFirst, tcLast,
                    static, failed, lastStatus >>
    /\ UNCHANGED << getVars, procVars, pureVars, fileVars >>

\* lines 225-226: the for loop ran out of items: page += 1, back to the test
ReposPageEnd ==
    /\ collector = "repos" /\ pc = "items" /\ items = << >>
    /\ page' = page + 1
    /\ pc' = "loop"
    /\ UNCHANGED << collector, start_page, target_count, srvTotal,
                    params_page, total_count, repos_scraped, items, rows,
                    reqPages, tcFirst, tcLast, static, failed, lastStatus >>
    /\ UNCHANGED << getVars, procVars, pureVars, fileVars >>

Next ==
    \/ UsersRequest
    \/ UsersWriteItem
    \/ UsersPageEnd
    \/ ReposExit
    \/ ReposRequest
    \/ ReposWriteItem
    \/ ReposPageEnd

Spec == Init /\ [][Next]_vars

(***************************************************************************)
(* One call of GitHubAPI._get.  The session of _create_retry_session       *)
(* mounts an adapter with Retry(total=5, status_forcelist, ...,            *)
(* raise_on_status=False): the transport sends an attempt, and after an    *)
(* attempt that ended in a network failure or in a status of               *)
(* status_forcelist it takes one retry from the total and sends again      *)
(* while the total is not below zero.  When the total is used up the       *)
(* transport hands back the last response (raise_on_status=False) or, when *)
(* there is no response, raises; _get catches nothing.                     *)
(***************************************************************************)
GetInit ==
    /\ gPc = "sending"
    /\ gRetries = RetryTotal
    /\ gAttempts = 0
    /\ gStatus = -1
    /\ gHasReset = FALSE
    /\ gResult = "unset"

InitGet == CollIdle /\ GetInit /\ ProcIdle /\ PureIdle /\ FileIdle

\* http.get, one HTTP attempt and the retry decision that follows it
Attempt ==
    /\ gPc = "sending"
    /\ \E o \in Statuses \cup {NetErr}, hasReset \in BOOLEAN :
          /\ (o = NetErr => ~hasReset)
          /\ gAttempts' = gAttempts + 1
          /\ gStatus' = o
          /\ gHasReset' = hasReset
          /\ IF o = NetErr \/ o \in status_forcelist
             THEN /\ gRetries' = gRetries - 1
                  /\ IF gRetries' < 0
                     THEN IF o = NetErr
                          THEN gPc' = "raised" /\ gResult' = "raise"
                          ELSE gPc' = "handling" /\ UNCHANGED gResult
                     ELSE gPc' = "sending" /\ UNCHANGED gResult
             ELSE /\ gPc' = "handling"
                  /\ UNCHANGED << gRetries, gResult >>
    /\ UNCHANGED << collVars, procVars, pureVars, fileVars >>

\* return self._handle_api_errors(response)
Handle ==
    /\ gPc = "handling"
    /\ gResult' = handle_api_errors(gStatus, gHasReset)
    /\ gPc' = (IF gResult' = "raise" THEN "raised" ELSE "returned")
    /\ UNCHANGED << gRetries, gAttempts, gStatus, gHasReset >>
    /\ UNCHANGED << collVars, procVars, pureVars, fileVars >>

NextGet == Attempt \/ Handle

SpecGet == InitGet /\ [][NextGet]_vars

(***************************************************************************)
(* GitHubRepoExtractor.  Strings whose characters the code looks at (file  *)
(* and directory names, paths, package names) are sequences of one-        *)
(* character strings.                                                      *)
(***************************************************************************)
\* Python's None and a present value
None == << >>
Some(v) == << v >>

\* str.lower() on the letters
UpperToLower ==
    [A |-> "a", B |-> "b", C |-> "c", D |-> "d", E |-> "e", F |-> "f",
     G |-> "g", H |-> "h", I |-> "i", J |-> "j", K |-> "k", L |-> "l",
     M |-> "m", N |-> "n", O |-> "o", P |-> "p", Q |-> "q", R |-> "r",
     S |-> "s", T |-> "t", U |-> "u", V |-> "v", W |-> "w", X |-> "x",
     Y |-> "y", Z |-> "z"]

LowerChar(c) == IF c \in DOMAIN UpperToLower THEN UpperToLower[c] ELSE c

Lower(str) == [i \in 1..Len(str) |-> LowerChar(str[i])]

\* str.endswith(suffix)
EndsWith(str, suffix) ==
    /\ Len(str) >= Len(suffix)
    /\ SubSeq(str, Len(str) - Len(suffix) + 1, Len(str)) = suffix

\* urllib.parse.quote(directory): letters, digits and _ . - ~ / stay,
\* every other character becomes its percent escape.
Escapes == [c \in {"#"} |-> << "%", "2", "3" >>]

RECURSIVE quote(_)
quote(str) ==
    IF str = << >> THEN << >>
    ELSE (IF Head(str) \in DOMAIN Escapes THEN Escapes[Head(str)] ELSE << Head(str) >>)
            \o quote(Tail(str))

\* The server's decoding of the path part of a contents URL.
RECURSIVE unquote(_)
unquote(str) ==
    IF str = << >> THEN << >>
    ELSE IF Len(str) >= 3 /\ \E c \in DOMAIN Escapes : SubSeq(str, 1, 3) = Escapes[c]
         THEN << CHOOSE c \in DOMAIN Escapes : SubSeq(str, 1, 3) = Escapes[c] >>
                 \o unquote(SubSeq(str, 4, Len(str)))
         ELSE << Head(str) >> \o unquote(Tail(str))

\* File and directory names of the remote repository.
n_github == << ".", "g", "i", "t", "h", "u", "b" >>
n_workflows == << "w", "o", "r", "k", "f", "l", "o", "w", "s" >>
n_ci_yml == << "c", "i", ".", "y", "m", "l" >>
n_a_PNG == << "a", ".", "P", "N", "G" >>
n_Imgs == << "I", "m", "g", "s" >>
n_x_py == << "x", ".", "p", "y" >>
n_src == << "s", "r", "c" >>
n_m_py == << "m", ".", "p", "y" >>
n_m_pyc == << "m", ".", "p", "y", "c" >>
n_pycache == << "_", "_", "p", "y", "c", "a", "c", "h", "e", "_", "_" >>
n_k_py == << "k", ".", "p", "y" >>
n_c_sharp == << "c", "#" >>
n_r_md == << "r", ".", "m", "d" >>
n_travis_yml == << ".", "t", "r", "a", "v", "i", "s", ".", "y", "m", "l" >>
n_lib == << "l", "i", "b" >>
n_pic_JPeG == << "p", "i", "c", ".", "J", "P", "e", "G" >>
n_IMAGES == << "I", "M", "A", "G", "E", "S" >>
n_empty == << "e", "m", "p", "t", "y" >>

\* item["path"] of a child called name of the directory at path dir
Join(dir, name) == IF dir = << >> THEN name ELSE dir \o << "/" >> \o name

Item(dir, name, type) == [name |-> name, path |-> Join(dir, name), type |-> type]

\* The remote file trees.  Listing1 and Listing2 give the listing the
\* contents endpoint serves for the directory at path dir.
\* Tree 1: a workflows directory, an excluded extension in capitals at the
\* root, excluded directories at the root and below src, a directory whose
\* name needs quoting.
Listing1(dir) ==
    IF dir = << >> THEN
        << Item(dir, n_github, "dir"), Item(dir, n_a_PNG, "file"),
           Item(dir, n_Imgs, "dir"), Item(dir, n_src, "dir"),
           Item(dir, n_c_sharp, "dir") >>
    ELSE IF dir = n_github THEN << Item(dir, n_workflows, "dir") >>
    ELSE IF dir = Join(n_github, n_workflows) THEN << Item(dir, n_ci_yml, "file") >>
    ELSE IF dir = n_Imgs THEN << Item(dir, n_x_py, "file") >>
    ELSE IF dir = n_src THEN
        << Item(dir, n_m_py, "file"), Item(dir, n_m_pyc, "file"),
           Item(dir, n_pycache, "dir") >>
    ELSE IF dir = Join(n_src, n_pycache) THEN << Item(dir, n_k_py, "file") >>
    ELSE IF dir = n_c_sharp THEN << Item(dir, n_r_md, "file") >>
    ELSE << >>

\* Tree 2: a CI configuration file first at the root, an excluded
\* extension and an excluded directory (with a directory of its own) three
\* levels down, a file listed after that directory, an empty directory.
Listing2(dir) ==
    IF dir = << >> THEN
        << Item(dir, n_travis_yml, "file"), Item(dir, n_src, "dir"),
           Item(dir, n_empty, "dir") >>
    ELSE IF dir = n_src THEN << Item(dir, n_lib, "dir") >>
    ELSE IF dir = Join(n_src, n_lib) THEN
        << Item(dir, n_m_py, "file"), Item(dir, n_pic_JPeG, "file"),
           Item(dir, n_IMAGES, "dir"), Item(dir, n_k_py, "file") >>
    ELSE IF dir = Join(Join(n_src, n_lib), n_IMAGES) THEN
        << Item(dir, n_x_py, "file"), Item(dir, n_src, "dir") >>
    ELSE IF dir = Join(Join(Join(n_src, n_lib), n_IMAGES), n_src) THEN
        << Item(dir, n_m_py, "file") >>
    ELSE << >>

Trees == {1, 2}

\* The listing of the directory at path dir in the tree of the repository
Listing(dir) == IF tree = 1 THEN Listing1(dir) ELSE Listing2(dir)

\* _fetch_recursive, line 60-61: the suffixes of files that are not yielded
ExcludedExtensions ==
    { << ".", "p", "y", "c" >>,
      << ".", "p", "n", "g" >>,
      << ".", "j", "p", "g" >>,
      << ".", "j", "p", "e", "g" >>,
      << ".", "g", "i", "f" >> }

\* line 65: the directories that are not entered
ExcludedDirs ==
    { << "i", "m", "a", "g", "e", "s" >>,
      << "i", "m", "g", "s" >>,
      << "_", "_", "p", "y", "c", "a", "c", "h", "e", "_", "_" >> }

YieldsFile_case_sensitive(item) ==
    /\ item.type = "file"
    /\ ~ \E e \in ExcludedExtensions : EndsWith(item.name, e)

YieldsFile(item) ==
    /\ item.type = "file"
    /\ ~ \E e \in ExcludedExtensions : EndsWith(Lower(item.name), e)

EntersDir(item) ==
    /\ item.type = "dir"
    /\ Lower(item.name) \notin ExcludedDirs

\* The file names _get_ci_cd_tool compares with
travis_yml == << ".", "t", "r", "a", "v", "i", "s", ".", "y", "m", "l" >>
gitlab_ci_yml == << ".", "g", "i", "t", "l", "a", "b", "-", "c", "i", ".", "y", "m", "l" >>
drone_yml == << ".", "d", "r", "o", "n", "e", ".", "y", "m", "l" >>
circleci_config_yml == << ".", "c", "i", "r", "c", "l", "e", "c", "i", "/", "c", "o", "n", "f", "i", "g", ".", "y", "m", "l" >>
github_workflows == << ".", "g", "i", "t", "h", "u", "b", "/", "w", "o", "r", "k", "f", "l", "o", "w", "s" >>
Jenkinsfile == << "J", "e", "n", "k", "i", "n", "s", "f", "i", "l", "e" >>

\* _get_ci_cd_tool: the for loop over self.row["filenames"] returns in
\* every branch of its first turn, the else branch included; an empty list
\* falls out of the loop and the function returns None.
RECURSIVE get_ci_cd_tool_goes_on(_)
get_ci_cd_tool_goes_on(filenames) ==
    IF filenames = << >> THEN None
    ELSE LET filename == filenames[1] IN
         IF Lower(filename) = travis_yml THEN Some("Travis CI")
         ELSE IF Lower(filename) = gitlab_ci_yml THEN Some("GitLab CI")
         ELSE IF Lower(filename) = drone_yml THEN Some("Drone CI")
         ELSE IF Lower(filename) = circleci_config_yml THEN Some("CircleCI")
         ELSE IF Lower(filename) = github_workflows THEN Some("GitHub Actions")
         ELSE IF Lower(filename) = Jenkinsfile THEN Some("Jenkins")
         ELSE get_ci_cd_tool_goes_on(Tail(filenames))

get_ci_cd_tool(filenames) ==
    IF filenames = << >> THEN None
    ELSE LET filename == filenames[1] IN
         IF Lower(filename) = travis_yml THEN Some("Travis CI")
         ELSE IF Lower(filename) = gitlab_ci_yml THEN Some("GitLab CI")
         ELSE IF Lower(filename) = drone_yml THEN Some("Drone CI")
         ELSE IF Lower(filename) = circleci_config_yml THEN Some("CircleCI")
         ELSE IF Lower(filename) = github_workflows THEN Some("GitHub Actions")
         ELSE IF Lower(filename) = Jenkinsfile THEN Some("Jenkins")
         ELSE None

\* Package names of a dependency manifest
p_root == << "c", "o", "m", ".", "g", "i", "t", "h", "u", "b", ".", "o", "/", "r" >>
p_pypi_foo == << "p", "k", "g", ":", "p", "y", "p", "i", "/", "f", "o", "o" >>
p_pip_bar == << "p", "i", "p", ":", "b", "a", "r" >>

PackageNames == {p_root, p_pypi_foo, p_pip_bar}

\* pkg.split(':')[-1]: the part after the last colon
RECURSIVE AfterLastColon(_)
AfterLastColon(str) ==
    IF \E i \in 1..Len(str) : str[i] = ":"
    THEN AfterLastColon(SubSeq(str, (CHOOSE i \in 1..Len(str) : str[i] = ":") + 1, Len(str)))
    ELSE str

\* _get_dependencies, lines 165-171, on the packages of a truthy payload
dependencies_of_keeps_first(packages) ==
    [i \in 1..Len(packages) |-> AfterLastColon(packages[i])]

dependencies_of(packages) ==
    LET packages_names == [i \in 1..Len(packages) |-> AfterLastColon(packages[i])]
    IN  SubSeq(packages_names, 2, Len(packages_names))

\* Bounds of the payloads: contributors listed, items of a commits, issues,
\* pulls or tags listing, packages of a manifest
MaxContributors == 2
MaxList == 1
MaxPackages == 2

\* All sequences over S of length at most n
SeqsUpTo(S, n) == UNION {[1..k -> S] : k \in 0..n}

IssueStates == {"open", "closed"}
PullKinds == { [state |-> "open", merged |-> FALSE],
               [state |-> "closed", merged |-> FALSE],
               [state |-> "closed", merged |-> TRUE] }
TagNames == {"v1"}

\* sum(1 for x in data if ...)
\* sum(1 for x in data if x["state"] == state)
CountState(data, state) == Cardinality({i \in 1..Len(data) : data[i].state = state})

\* sum(1 for pull_request in data if pull_request["merged_at"] is not None)
CountMerged(data) == Cardinality({i \in 1..Len(data) : data[i].merged})

\* the columns a candidate row comes with (REPO_COLS)
REPO_COLS == {"login", "repo_name", "repo_html_url", "language", "topics",
              "repo_description", "open_issues_count", "forks_count",
              "stargazers_count", "last_repo_commit_date", "license"}

\* the fields process_repo adds after the inclusion gate
EnrichmentFields == {"filenames", "commits_count", "issues_count",
                     "pull_requests_count", "tags", "dependencies", "ci_cd_tool"}

\* self.row[key] = value
SetField_tags_into_topics(d, key, value) ==
    [k \in DOMAIN d \cup {key} |->
        IF k = key \/ (key = "tags" /\ k = "topics") THEN value ELSE d[k]]

SetField(d, key, value) ==
    [k \in DOMAIN d \cup {key} |-> IF k = key THEN value ELSE d[k]]

\* One request of process_repo as the history keeps it: the endpoint, the
\* path of a contents request, what _get yielded and the number of entries
\* of its payload (0 without payload).
Req(ep, path, r, n) == [ep |-> ep, path |-> path, r |-> r, n |-> n]

\* if data: - a payload that is an empty list counts as no data
Truthy(r, n) == r = "payload" /\ n > 0

\* The row a candidate comes with: every column of REPO_COLS, each with a
\* value of its own (the name of the column stands for it)
CandidateRow == [k \in REPO_COLS |-> k]

ProcInit ==
    /\ row = CandidateRow
    /\ prPc = "start"
    /\ stack = << >>
    /\ walked = << >>
    /\ prReqs = << >>
    /\ tree \in Trees

InitProcess == CollIdle /\ GetIdle /\ ProcInit /\ PureIdle /\ FileIdle

\* process_repo line 200: the inclusion gate on the contributor count
Included_when_known(count) == count # None

Included(count) == count # None /\ count[1] > 1

\* lines 198-200 and 214-217 with _get_contributors_count: fetch the
\* contributors, store the count, and either start the enrichment with
\* _get_filenames or return the row.
Contributors ==
    /\ prPc = "start"
    /\ \E r \in GetResults, n \in 0..MaxContributors :
          LET count == IF Truthy(r, n) THEN Some(n) ELSE None
          IN  /\ (r # "payload" => n = 0)
              /\ prReqs' = Append(prReqs, Req("contributors", << >>, r, n))
              /\ IF r = "raise"
                 THEN /\ prPc' = "raised"
                      /\ UNCHANGED << row, stack >>
                 ELSE /\ row' = SetField(row, "contributor_count", count)
                      /\ IF Included(count)
                         THEN /\ prPc' = "walk"
                              /\ stack' = << [dir |-> << >>, fetched |-> FALSE, todo |-> << >>] >>
                         ELSE /\ prPc' = "done"
                              /\ UNCHANGED stack
    /\ UNCHANGED walked
    /\ UNCHANGED << collVars, getVars, pureVars, fileVars, tree >>

Top == stack[Len(stack)]
Pop == SubSeq(stack, 1, Len(stack) - 1)
ReplaceTop(f) == [stack EXCEPT ![Len(stack)] = f]

\* _fetch_recursive lines 53-57 and 68-70: a generator that starts running
\* quotes its directory and requests its contents; with data it goes on to
\* the items, without it logs a warning and is exhausted.
WalkFetch ==
    /\ prPc = "walk" /\ stack # << >> /\ ~Top.fetched
    /\ \E r \in GetResults :
          LET directory == quote(Top.dir)
              data == IF r = "payload" THEN Listing(unquote(directory)) ELSE << >>
          IN  /\ prReqs' = Append(prReqs, Req("contents", directory, r, Len(data)))
              /\ IF r = "raise"
                 THEN prPc' = "raised" /\ UNCHANGED stack
                 ELSE /\ prPc' = "walk"
                      /\ IF Truthy(r, Len(data))
                         THEN stack' = ReplaceTop([Top EXCEPT !.fetched = TRUE, !.todo = data])
                         ELSE stack' = ReplaceTop([Top EXCEPT !.fetched = TRUE, !.todo = << >>])
    /\ UNCHANGED << row, walked >>
    /\ UNCHANGED << collVars, getVars, pureVars, fileVars, tree >>

\* lines 58-66: one turn of the for loop over the items of a listing
WalkItem ==
    /\ prPc = "walk" /\ stack # << >> /\ Top.fetched /\ Top.todo # << >>
    /\ LET item == Head(Top.todo)
           rest == ReplaceTop([Top EXCEPT !.todo = Tail(Top.todo)])
       IN  IF YieldsFile(item)
           THEN walked' = Append(walked, item.path) /\ stack' = rest
           ELSE IF EntersDir(item)
           THEN /\ stack' = Append(rest, [dir |-> item.path, fetched |-> FALSE, todo |-> << >>])
                /\ UNCHANGED walked
           ELSE stack' = rest /\ UNCHANGED walked
    /\ UNCHANGED << row, prPc, prReqs >>
    /\ UNCHANGED << collVars, getVars, pureVars, fileVars, tree >>

\* a generator whose for loop is over is exhausted and control goes back
\* to the one that delegated to it
WalkReturn ==
    /\ prPc = "walk" /\ stack # << >> /\ Top.fetched /\ Top.todo = << >>
    /\ stack' = Pop
    /\ UNCHANGED << row, prPc, walked, prReqs >>
    /\ UNCHANGED << collVars, getVars, pureVars, fileVars, tree >>

\* line 72 and process_repo line 205: list(...) is complete and stored
WalkFinish_skips_commits ==
    /\ prPc = "walk" /\ stack = << >>
    /\ row' = SetField(row, "filenames", walked)
    /\ prPc' = "issues"
    /\ UNCHANGED << stack, walked, prReqs >>
    /\ UNCHANGED << collVars, getVars, pureVars, fileVars, tree >>

WalkFinish ==
    /\ prPc = "walk" /\ stack = << >>
    /\ row' = SetField(row, "filenames", walked)
    /\ prPc' = "commits"
    /\ UNCHANGED << stack, walked, prReqs >>
    /\ UNCHANGED << collVars, getVars, pureVars, fileVars, tree >>

\* A sub-fetch called by process_repo: the request to endpoint ep yielded
\* r with a payload of n entries; unless _get raised, the value v that the
\* fetching method returns is stored into field and process_repo goes on
\* to next.
SubFetch(ep, r, n, field, v, next) ==
    /\ prReqs' = Append(prReqs, Req(ep, << >>, r, n))
    /\ IF r = "raise"
       THEN prPc' = "raised" /\ UNCHANGED row
       ELSE prPc' = next /\ row' = SetField(row, field, v)
    /\ UNCHANGED << stack, walked >>
    /\ UNCHANGED << collVars, getVars, pureVars, fileVars, tree >>

\* _get_commits_count
get_commits_count(r, data) == IF Truthy(r, Len(data)) THEN Len(data) ELSE 0

\* process_repo line 206
Commits ==
    /\ prPc = "commits"
    /\ \E r \in GetResults, data \in SeqsUpTo({"c"}, MaxList) :
          /\ (r # "payload" => data = << >>)
          /\ SubFetch("commits", r, Len(data), "commits_count",
                      get_commits_count(r, data), "issues")

\* _get_issues_count
get_issues_count(r, data) ==
    IF Truthy(r, Len(data))
    THEN Some([open |-> CountState(data, "open"), closed |-> CountState(data, "closed")])
    ELSE None

\* process_repo line 207
Issues ==
    /\ prPc = "issues"
    /\ \E r \in GetResults, data \in SeqsUpTo([state : IssueStates], MaxList) :
          /\ (r # "payload" => data = << >>)
          /\ SubFetch("issues", r, Len(data), "issues_count",
                      get_issues_count(r, data), "pulls")

\* _get_pull_requests_count
get_pull_requests_count(r, data) ==
    IF Truthy(r, Len(data))
    THEN Some([open |-> CountState(data, "open"), closed |-> CountState(data, "closed"),
               merged |-> CountMerged(data)])
    ELSE None

\* process_repo line 208
Pulls ==
    /\ prPc = "pulls"
    /\ \E r \in GetResults, data \in SeqsUpTo(PullKinds, MaxList) :
          /\ (r # "payload" => data = << >>)
          /\ SubFetch("pulls", r, Len(data), "pull_requests_count",
                      get_pull_requests_count(r, data), "tags")

\* _get_tags
get_tags(r, data) == IF Truthy(r, Len(data)) THEN Some(data) ELSE None

\* process_repo line 209
Tags ==
    /\ prPc = "tags"
    /\ \E r \in GetResults, data \in SeqsUpTo(TagNames, MaxList) :
          /\ (r # "payload" => data = << >>)
          /\ SubFetch("tags", r, Len(data), "tags", get_tags(r, data), "sbom")

\* _get_dependencies; the manifest payload is a dictionary, truthy
\* whatever its package list holds
get_dependencies(r, packages) ==
    IF r = "payload" THEN Some(dependencies_of(packages)) ELSE None

\* process_repo line 210
Sbom ==
    /\ prPc = "sbom"
    /\ \E r \in GetResults, packages \in SeqsUpTo(PackageNames, MaxPackages) :
          /\ (r # "payload" => packages = << >>)
          /\ SubFetch("sbom", r, Len(packages), "dependencies",
                      get_dependencies(r, packages), "ci")

\* lines 211-217: _get_ci_cd_tool on the stored file list, then return
CiTool ==
    /\ prPc = "ci"
    /\ row' = SetField(row, "ci_cd_tool", get_ci_cd_tool(row["filenames"]))
    /\ prPc' = "done"
    /\ UNCHANGED << stack, walked, prReqs >>
    /\ UNCHANGED << collVars, getVars, pureVars, fileVars, tree >>

NextProcess ==
    \/ Contributors
    \/ WalkFetch
    \/ WalkItem
    \/ WalkReturn
    \/ WalkFinish
    \/ Commits
    \/ Issues
    \/ Pulls
    \/ Tags
    \/ Sbom
    \/ CiTool

SpecProcess == InitProcess /\ [][NextProcess]_vars

(***************************************************************************)
(* One call of a pure function of GitHubRepoExtractor on a drawn input:    *)
(* _get_ci_cd_tool on a file list, or the package name extraction of       *)
(* _get_dependencies on the package names of a manifest.                   *)
(***************************************************************************)
\* Longest file list drawn
MaxFiles == 3

\* The file paths the lists are drawn from: the six configuration files
\* the detector names, a file that is none of them and a workflow file
CiFileNames ==
    { travis_yml, gitlab_ci_yml, drone_yml, circleci_config_yml,
      github_workflows, Jenkinsfile, n_r_md,
      Join(Join(n_github, n_workflows), n_ci_yml) }

PureInit ==
    /\ pFn \in {"ci", "deps"}
    /\ pFiles \in (IF pFn = "ci" THEN SeqsUpTo(CiFileNames, MaxFiles) ELSE {<< >>})
    /\ pPackages \in (IF pFn = "deps" THEN SeqsUpTo(PackageNames, MaxPackages) ELSE {<< >>})
    /\ pOut = << >>
    /\ pPc = "call"

InitPure == CollIdle /\ GetIdle /\ ProcIdle /\ PureInit /\ FileIdle

\* _get_ci_cd_tool with self.row["filenames"] = pFiles
CallCiTool ==
    /\ pFn = "ci" /\ pPc = "call"
    /\ pOut' = get_ci_cd_tool(pFiles)
    /\ pPc' = "done"
    /\ UNCHANGED << pFn, pFiles, pPackages >>
    /\ UNCHANGED << collVars, getVars, procVars, fileVars >>

\* _get_dependencies lines 165-171 with the package names pPackages
CallDependencies ==
    /\ pFn = "deps" /\ pPc = "call"
    /\ pOut' = dependencies_of(pPackages)
    /\ pPc' = "done"
    /\ UNCHANGED << pFn, pFiles, pPackages >>
    /\ UNCHANGED << collVars, getVars, procVars, fileVars >>

NextPure == CallCiTool \/ CallDependencies

SpecPure == InitPure /\ [][NextPure]_vars

(***************************************************************************)
(* One call of GittHubDataCollector.scrap_repos_file on a users file of    *)
(* fUsers rows.  from_row = 0 stands for the default (None), which the     *)
(* test "if from_row" treats as 0.  fRead is the number of rows the reader *)
(* has given out, fI the number of rows the enumerate loop has taken,      *)
(* fReqs the repos requests sent and fRows the rows written.               *)
(***************************************************************************)
\* Most rows of the users file
MaxUsers == 3

\* Most repositories of one user
MaxRepos == 1

\* The loop index at which the loop breaks (50000 in the source, scaled)
RowCap == 1

FileInit ==
    /\ fUsers \in 0..MaxUsers
    /\ from_row \in 0..(MaxUsers + 2)
    /\ fRead = 0
    /\ fI = 0
    /\ fReqs = << >>
    /\ fRows = << >>
    /\ fPc = "skip"

InitFile == CollIdle /\ GetIdle /\ ProcIdle /\ PureIdle /\ FileInit

\* range(from_row - 1): the number of rows taken from the reader before
\* the loop starts
SkipCount == IF from_row # 0 THEN Max(from_row - 1, 0) ELSE 0

\* next(reader) in the skipping loop, with a row left
FileSkipRow ==
    /\ fPc = "skip"
    /\ fRead < SkipCount
    /\ fRead < fUsers
    /\ fRead' = fRead + 1
    /\ UNCHANGED << fUsers, from_row, fI, fReqs, fRows, fPc >>
    /\ UNCHANGED << collVars, getVars, procVars, pureVars >>

\* next(reader) in the skipping loop on an exhausted reader: StopIteration
\* leaves the function
FileSkipRaise ==
    /\ fPc = "skip"
    /\ fRead < SkipCount
    /\ fRead >= fUsers
    /\ fPc' = "raised"
    /\ UNCHANGED << fUsers, from_row, fRead, fI, fReqs, fRows >>
    /\ UNCHANGED << collVars, getVars, procVars, pureVars >>

\* The skipping is over: the repos file is opened and the loop starts
FileOpen ==
    /\ fPc = "skip"
    /\ fRead >= SkipCount
    /\ fPc' = "loop"
    /\ UNCHANGED << fUsers, from_row, fRead, fI, fReqs, fRows >>
    /\ UNCHANGED << collVars, getVars, procVars, pureVars >>

\* The rows written for the n repositories of a user
UserRows(user, n) == [k \in 1..n |-> [user |-> user, repo |-> k]]

\* One turn of the loop whose request gives a list of n repositories:
\* one row per repository, then the break test on the loop index
FileUserRepos ==
    /\ fPc = "loop"
    /\ fRead < fUsers
    /\ "payload" \in GetResults
    /\ \E n \in 0..MaxRepos :
          /\ fReqs' = Append(fReqs, [user |-> fRead + 1, r |-> "payload", n |-> n])
          /\ fRows' = fRows \o UserRows(fRead + 1, n)
    /\ fRead' = fRead + 1
    /\ fI' = fI + 1
    /\ fPc' = IF fI = RowCap THEN "done" ELSE "loop"
    /\ UNCHANGED << fUsers, from_row >>
    /\ UNCHANGED << collVars, getVars, procVars, pureVars >>

\* One turn of the loop whose request gives None: nothing written, no
\* break test
FileUserNone ==
    /\ fPc = "loop"
    /\ fRead < fUsers
    /\ "none" \in GetResults
    /\ fReqs' = Append(fReqs, [user |-> fRead + 1, r |-> "none", n |-> 0])
    /\ fRead' = fRead + 1
    /\ fI' = fI + 1
    /\ UNCHANGED << fUsers, from_row, fRows, fPc >>
    /\ UNCHANGED << collVars, getVars, procVars, pureVars >>

\* One turn of the loop whose request raises: the exception leaves the
\* function
FileUserRaise ==
    /\ fPc = "loop"
    /\ fRead < fUsers
    /\ "raise" \in GetResults
    /\ fReqs' = Append(fReqs, [user |-> fRead + 1, r |-> "raise", n |-> 0])
    /\ fRead' = fRead + 1
    /\ fI' = fI + 1
    /\ fPc' = "raised"
    /\ UNCHANGED << fUsers, from_row, fRows >>
    /\ UNCHANGED << collVars, getVars, procVars, pureVars >>

\* The reader is exhausted: the loop ends and the function returns
FileExit ==
    /\ fPc = "loop"
    /\ fRead >= fUsers
    /\ fPc' = "done"
    /\ UNCHANGED << fUsers, from_row, fRead, fI, fReqs, fRows >>
    /\ UNCHANGED << collVars, getVars, procVars, pureVars >>

NextFile ==
    \/ FileSkipRow
    \/ FileSkipRaise
    \/ FileOpen
    \/ FileUserRepos
    \/ FileUserNone
    \/ FileUserRaise
    \/ FileExit

SpecFile == InitFile /\ [][NextFile]_vars

(***************************************************************************)
(* Properties of the pagination loops (specification Spec).                *)
(***************************************************************************)
\* The run met a failure-free API whose result set did not change: every
\* request so far was a Success reporting srvTotal items.
FailureFree == static /\ ~failed

\* C1: scrap_non_egy_repos against a failure-free API serving srvTotal
\* distinct items in pages of PerPage: when the call returns, the number of
\* rows written is min(srvTotal, target_count).
C1_RowsEqualMin ==
    (collector = "repos" /\ pc = "done" /\ start_page = 1 /\ FailureFree)
        => Len(rows) = Min(srvTotal, target_count)

\* C2: scrap_egy_contributors started at page 1 against a failure-free API
\* serving srvTotal items in pages of PerPage: when the call returns, the
\* rows written are the srvTotal items, each once, in result order.
C2_UsersRowsEqualTotal ==
    (collector = "users" /\ pc = "done" /\ start_page = 1 /\ FailureFree)
        => /\ Len(rows) = srvTotal
           /\ \A i \in 1..Len(rows) : rows[i] = i

\* C2 witness: a run over an exact multiple of the page size has returned
\* after writing both pages.
C2_Witness ==
    /\ collector = "users" /\ pc = "done" /\ start_page = 1 /\ FailureFree
    /\ srvTotal = 2 * PerPage
    /\ Len(rows) = srvTotal

\* C3: the user collector started at page 1 with every response a Success
\* never requests a page beyond ceil(srvTotal / PerPage) and has sent exactly
\* that many requests when it returns, for every srvTotal >= 1.
C3_ExactlyCeilPages ==
    (collector = "users" /\ start_page = 1 /\ FailureFree /\ srvTotal >= 1)
        => /\ \A i \in 1..Len(reqPages) : reqPages[i] <= CeilDiv(srvTotal, PerPage)
           /\ (pc = "done" => Len(reqPages) = CeilDiv(srvTotal, PerPage))

\* C4: in both loops the first response that is not a Success ends the
\* loop at once: the step that receives it writes no row and leaves the
\* loop, and from then on no request is sent and no row is written.
C4_StopOnFailure ==
    [][failed' => /\ pc' \in {"done", "raised"}
                  /\ rows' = rows
                  /\ items' = items
                  /\ (failed => reqPages' = reqPages)]_vars

\* C4 witness: a loop has stopped on a failed request that followed a page
\* whose items were written.
C4_Witness ==
    /\ failed /\ pc = "done"
    /\ Len(reqPages) >= 2
    /\ Len(rows) >= 1
    /\ lastStatus = 403

\* C5: in both loops the first request carries start_page, every later
\* request carries a page number strictly greater than the one before, and
\* the page number sent is the current value of the cursor.
C5_PageCursorMonotonic ==
    /\ \A i \in 1..Len(reqPages) :
          /\ (i = 1 => reqPages[i] = start_page)
          /\ (i > 1 => reqPages[i] > reqPages[i - 1])
    /\ (pc = "items" => reqPages[Len(reqPages)] = page)

\* C6 (as stated): in the user collector the number of pages requested is
\* fixed by the total_count of the first Success response.
C6_FirstTotalFixesPages ==
    (collector = "users" /\ pc = "done" /\ ~failed)
        => Len(reqPages) = Max(1, (tcFirst \div PerPage + 1) - start_page + 1)

\* C6 (amended): every stop test of the user collector uses the
\* total_count of the response just processed: the loop goes on while the
\* next page does not exceed total_count // per_page + 1 of the latest
\* Success response and returns as soon as it does.
C6_LatestTotalDecides ==
    collector = "users"
        => /\ (pc = "loop" /\ reqPages # << >>) => page <= tcLast \div PerPage + 1
           /\ (pc = "done" /\ ~failed) => page > tcLast \div PerPage + 1

\* C6 witness: a run has returned after a later page reported another
\* total_count than the first, and the number of requests is not the one
\* the first total_count gives.
C6_Witness ==
    /\ collector = "users" /\ pc = "done" /\ ~failed
    /\ tcFirst # tcLast
    /\ Len(reqPages) # Max(1, (tcFirst \div PerPage + 1) - start_page + 1)

\* C7: scrap_non_egy_repos never has more than target_count rows written;
\* once the count is reached the item loop is left with the rest of the
\* page unwritten, and no further request is sent or row written.
C7_TargetCountStop ==
    /\ [](collector = "repos"
            => /\ Len(rows) <= target_count
               /\ repos_scraped = Len(rows)
               /\ (Len(rows) >= target_count
                     => pc \in {"loop", "done"} /\ items = << >>))
    /\ [][(collector = "repos" /\ Len(rows) >= target_count)
            => (rows' = rows /\ reqPages' = reqPages)]_vars

\* C7 witness: the target was reached in the middle of a page (the page
\* served holds more items than the target asked for) and the call returned.
C7_Witness ==
    /\ collector = "repos" /\ pc = "done" /\ ~failed
    /\ start_page = 1 /\ static
    /\ target_count < PerPage /\ srvTotal >= PerPage
    /\ Len(rows) = target_count
    /\ Len(reqPages) = 1

(***************************************************************************)
(* Properties of _get (specification SpecGet).                             *)
(***************************************************************************)
\* C8: for every HTTP status of the final response _get returns exactly
\* one outcome and never raises: the payload for 200, the no-payload
\* outcome for every other status, 403 without reset header included.
C8_OneOutcomeNeverRaises ==
    (gPc \in {"returned", "raised"} /\ gStatus # NetErr)
        => /\ gPc = "returned"
           /\ gResult = (IF gStatus = 200 THEN "payload" ELSE "none")

\* C9: one _get call sends at most 5 HTTP attempts, and a call whose
\* retries were used up by 429/5xx answers or by network failures returns
\* the no-payload outcome instead of raising.
C9_BoundedRetries ==
    /\ gAttempts <= 5
    /\ (gPc \in {"returned", "raised"}
          /\ (gStatus = NetErr \/ gStatus \in status_forcelist))
        => (gPc = "returned" /\ gResult = "none")

IncludedRun ==
    /\ prReqs # << >>
    /\ prReqs[1].r = "payload" /\ prReqs[1].n > 1

\* The request process_repo sent to endpoint ep (the first, for contents)
HasReq(ep) == \E i \in 1..Len(prReqs) : prReqs[i].ep = ep
ReqOf(ep) ==
    prReqs[CHOOSE i \in 1..Len(prReqs) :
              prReqs[i].ep = ep /\ \A j \in 1..(i - 1) : prReqs[j].ep # ep]

SubFetchEndpoints == {"contents", "commits", "issues", "pulls", "tags", "sbom"}

\* C11: once the record is included, every sub-fetch is issued whatever
\* the outcomes of the others, and process_repo returns a record in which
\* a non-Success outcome left only the field of its own sub-fetch absent or
\* zero and every successful sub-fetch filled its field.
C11_SubFetchIndependence ==
    IncludedRun
        => /\ prPc # "raised"
           /\ (prPc = "done"
                 => /\ \A ep \in SubFetchEndpoints : HasReq(ep)
                    /\ (ReqOf("contents").r # "payload" => row["filenames"] = << >>)
                    /\ row["commits_count"] =
                          (IF ReqOf("commits").r = "payload" THEN ReqOf("commits").n ELSE 0)
                    /\ (row["issues_count"] = None <=> ~Truthy(ReqOf("issues").r, ReqOf("issues").n))
                    /\ (row["pull_requests_count"] = None
                          <=> ~Truthy(ReqOf("pulls").r, ReqOf("pulls").n))
                    /\ (row["tags"] = None <=> ~Truthy(ReqOf("tags").r, ReqOf("tags").n))
                    /\ (row["dependencies"] = None <=> ReqOf("sbom").r # "payload"))

\* The names a path is made of, in order: the path split at "/"
RECURSIVE SplitPath(_)
SplitPath(str) ==
    IF \E i \in 1..Len(str) : str[i] = "/"
    THEN LET i == CHOOSE k \in 1..Len(str) :
                     str[k] = "/" /\ \A j \in 1..(k - 1) : str[j] # "/"
         IN  << SubSeq(str, 1, i - 1) >> \o SplitPath(SubSeq(str, i + 1, Len(str)))
    ELSE << str >>

\* No directory on the path has an excluded name
NoExcludedDir(names) == \A k \in 1..Len(names) : Lower(names[k]) \notin ExcludedDirs

\* A file path the walk may return: the file name does not end with an
\* excluded extension and the file lies below no excluded directory
CleanFilePath(path) ==
    LET names == SplitPath(path) IN
    /\ ~ \E e \in ExcludedExtensions : EndsWith(Lower(names[Len(names)]), e)
    /\ NoExcludedDir(SubSeq(names, 1, Len(names) - 1))

ContentsReqs == {i \in 1..Len(prReqs) : prReqs[i].ep = "contents"}

\* C12: at every depth, the tree walk yields no path of a file whose
\* lowercase name ends with an excluded extension, sends no contents
\* request for a directory with an excluded lowercase name, and yields no
\* path below such a directory; so the stored file list holds none either.
C12_WalkFiltering ==
    /\ \A i \in 1..Len(walked) : CleanFilePath(walked[i])
    /\ ("filenames" \in DOMAIN row
          => \A i \in 1..Len(row["filenames"]) : CleanFilePath(row["filenames"][i]))
    /\ \A i \in ContentsReqs : NoExcludedDir(SplitPath(unquote(prReqs[i].path)))

\* C12 witness: the walk of tree 2 went through: the four directories that
\* are not excluded were listed, the file listed after the excluded
\* directory three levels down was returned, and process_repo returned.
C12_Witness ==
    /\ prPc = "done" /\ tree = 2
    /\ Cardinality(ContentsReqs) = 4
    /\ \A i \in ContentsReqs : prReqs[i].r = "payload"
    /\ Len(row["filenames"]) = 3
    /\ row["filenames"][3] = Join(Join(n_src, n_lib), n_k_py)

\* The directories whose contents request was a Success
OkDirs == {unquote(prReqs[i].path) : i \in {j \in ContentsReqs : prReqs[j].r = "payload"}}

\* What a depth-first walk in listing order returns and requests from the
\* directory at path dir on, given which directories could be listed: the
\* non-excluded files, and the quoted paths of the directories requested.
RECURSIVE ExpectFiles(_), ExpectFilesOf(_), ExpectReqs(_), ExpectReqsOf(_)
ExpectFiles(dir) == IF dir \in OkDirs THEN ExpectFilesOf(Listing(dir)) ELSE << >>
ExpectFilesOf(its) ==
    IF its = << >> THEN << >>
    ELSE (IF YieldsFile(Head(its)) THEN << Head(its).path >>
          ELSE IF EntersDir(Head(its)) THEN ExpectFiles(Head(its).path)
          ELSE << >>) \o ExpectFilesOf(Tail(its))
ExpectReqs(dir) ==
    << quote(dir) >> \o (IF dir \in OkDirs THEN ExpectReqsOf(Listing(dir)) ELSE << >>)
ExpectReqsOf(its) ==
    IF its = << >> THEN << >>
    ELSE (IF EntersDir(Head(its)) THEN ExpectReqs(Head(its).path) ELSE << >>)
            \o ExpectReqsOf(Tail(its))

\* The paths of the contents requests, in the order they were sent
RECURSIVE ContentsPaths(_)
ContentsPaths(reqs) ==
    IF reqs = << >> THEN << >>
    ELSE (IF Head(reqs).ep = "contents" THEN << Head(reqs).path >> ELSE << >>)
            \o ContentsPaths(Tail(reqs))

NoDuplicates(seq) == \A i, j \in 1..Len(seq) : seq[i] = seq[j] => i = j

\* _get_filenames was left by an exception / has returned its list
WalkAborted == prPc = "raised" /\ prReqs[Len(prReqs)].ep = "contents"
WalkReturned == "filenames" \in DOMAIN row

\* C13: when the contents request of a directory ends in a non-Success
\* outcome, the walk neither aborts nor raises: it yields nothing for that
\* subtree and still returns every non-excluded file of the directories
\* that could be listed.
C13_BestEffortWalk ==
    (\E i \in ContentsReqs : prReqs[i].r # "payload")
        => /\ ~WalkAborted
           /\ (WalkReturned => row["filenames"] = ExpectFiles(<< >>))

\* C18: for every tree and every assignment of outcomes to the directory
\* requests the walk ends by returning, after requesting the root and each
\* non-excluded directory reachable through successfully listed ones
\* exactly once, with each non-excluded file below them exactly once in
\* depth-first listing order.
C18_WalkFinite ==
    IncludedRun
        => /\ ~WalkAborted
           /\ NoDuplicates(ContentsPaths(prReqs))
           /\ (WalkReturned
                 => /\ ContentsPaths(prReqs) = ExpectReqs(<< >>)
                    /\ row["filenames"] = ExpectFiles(<< >>)
                    /\ NoDuplicates(row["filenames"]))

\* C15: end to end, for a repository with more than one contributor whose
\* tree holds a .github/workflows directory with a workflow file in it,
\* listed successfully, the record returned has ci_cd_tool "GitHub Actions".
C15_WorkflowsDetected ==
    (/\ prPc = "done" /\ IncludedRun /\ tree = 1
     /\ Join(n_github, n_workflows) \in OkDirs)
        => row["ci_cd_tool"] = Some("GitHub Actions")

\* The place of an endpoint in the order process_repo calls them
Rank(ep) ==
    CASE ep = "contributors" -> 1
      [] ep = "contents" -> 2
      [] ep = "commits" -> 3
      [] ep = "issues" -> 4
      [] ep = "pulls" -> 5
      [] ep = "tags" -> 6
      [] ep = "sbom" -> 7

\* C17: the requests of process_repo go out one after the other in the
\* order contributors, the contents requests of the walk, commits, issues,
\* pulls, tags, sbom, none left out and none repeated; an included record
\* that is returned has had them all; the CI scan runs after the walk has
\* stored its list, sends no request and leaves the list as it is.
C17_RequestOrder ==
    /\ [](/\ (prReqs # << >> => prReqs[1].ep = "contributors")
          /\ \A i \in 1..(Len(prReqs) - 1) :
                \/ Rank(prReqs[i + 1].ep) = Rank(prReqs[i].ep) + 1
                \/ prReqs[i].ep = "contents" /\ prReqs[i + 1].ep = "contents"
          /\ ((prPc = "done" /\ IncludedRun) => prReqs[Len(prReqs)].ep = "sbom")
          /\ (prPc = "ci" => (WalkReturned /\ stack = << >> /\ row["filenames"] = walked)))
    /\ [][prPc = "ci" => /\ prReqs' = prReqs
                         /\ prPc' = "done"
                         /\ row'["filenames"] = row["filenames"]]_vars

\* C17 witness: an included record was returned after a walk of several
\* contents requests and the five sub-fetches, with the scan result stored.
C17_Witness ==
    /\ prPc = "done" /\ IncludedRun
    /\ Cardinality(ContentsReqs) >= 3
    /\ Len(prReqs) = 1 + Cardinality(ContentsReqs) + 5
    /\ "ci_cd_tool" \in DOMAIN row

(***************************************************************************)
(* Properties of the pure functions (specification SpecPure).              *)
(***************************************************************************)
\* The configuration file of each tool, in the precedence order
CiPrecedence ==
    << [file |-> travis_yml, tool |-> "Travis CI"],
       [file |-> gitlab_ci_yml, tool |-> "GitLab CI"],
       [file |-> drone_yml, tool |-> "Drone CI"],
       [file |-> circleci_config_yml, tool |-> "CircleCI"],
       [file |-> github_workflows, tool |-> "GitHub Actions"],
       [file |-> Jenkinsfile, tool |-> "Jenkins"] >>

\* The file list holds the configuration file of the k-th tool
HoldsConfig(files, k) == \E i \in 1..Len(files) : files[i] = CiPrecedence[k].file

\* C14: when the file list holds the configuration file of one or several
\* tools, at any position and in any order, _get_ci_cd_tool returns the
\* tool that comes first in the order Travis, GitLab CI, Drone, CircleCI,
\* GitHub Actions, Jenkins among those present.
C14_PrecedenceOrder ==
    (pFn = "ci" /\ pPc = "done" /\ \E k \in 1..6 : HoldsConfig(pFiles, k))
        => LET first == CHOOSE k \in 1..6 :
                            /\ HoldsConfig(pFiles, k)
                            /\ \A j \in 1..(k - 1) : ~HoldsConfig(pFiles, j)
           IN  pOut = Some(CiPrecedence[first].tool)

\* The part of a package name after its last namespace separator, colon
\* or slash
RECURSIVE AfterLastSeparator(_)
AfterLastSeparator(str) ==
    IF \E i \in 1..Len(str) : str[i] \in {":", "/"}
    THEN AfterLastSeparator(
            SubSeq(str, (CHOOSE i \in 1..Len(str) : str[i] \in {":", "/"}) + 1, Len(str)))
    ELSE str

\* C16 (as stated): the result holds one name for every package but the
\* first, in manifest order, each the part of the package name after its
\* last namespace separator ("pkg:pypi/foo" gives "foo").
C16_DropFirstAndNormalize ==
    (pFn = "deps" /\ pPc = "done")
        => /\ Len(pOut) = Max(Len(pPackages) - 1, 0)
           /\ \A i \in 1..Len(pOut) : pOut[i] = AfterLastSeparator(pPackages[i + 1])

\* C16 (amended): the result holds one name for every package but the
\* first, in manifest order, each the part of the package name after its
\* last colon: an end piece of the name that holds no colon and is either
\* the whole name or preceded by a colon ("pkg:pypi/foo" gives "pypi/foo").
C16_DropFirstAfterColon ==
    (pFn = "deps" /\ pPc = "done")
        => /\ Len(pOut) = Max(Len(pPackages) - 1, 0)
           /\ \A i \in 1..Len(pOut) :
                 LET name == pPackages[i + 1]
                     part == pOut[i]
                 IN  /\ EndsWith(name, part)
                     /\ \A k \in 1..Len(part) : part[k] # ":"
                     /\ (Len(part) = Len(name) \/ name[Len(name) - Len(part)] = ":")
                     /\ (name = p_pypi_foo => part = << "p", "y", "p", "i", "/", "f", "o", "o" >>)

\* C16 witness: the extraction has run on a manifest whose second package
\* is "pkg:pypi/foo" and returned the one name "pypi/foo".
C16_Witness ==
    /\ pFn = "deps" /\ pPc = "done"
    /\ pPackages = << p_root, p_pypi_foo >>
    /\ pOut = << << "p", "y", "p", "i", "/", "f", "o", "o" >> >>

\* C19: the result of _get_ci_cd_tool depends on the first element of the
\* file list only: it is None for the empty list, and every list with the
\* same first element gives the same result whatever follows it.
C19_FirstFileOnly ==
    (pFn = "ci" /\ pPc = "done")
        => IF pFiles = << >> THEN pOut = None
           ELSE \A rest \in SeqsUpTo(CiFileNames, MaxFiles - 1) :
                   get_ci_cd_tool(<< pFiles[1] >> \o rest) = pOut

\* C19 witness: the detector has run on a list whose first file is no
\* configuration file and whose second is .travis.yml, and returned None.
C19_Witness ==
    /\ pFn = "ci" /\ pPc = "done"
    /\ Len(pFiles) >= 2
    /\ pFiles[1] = n_r_md /\ pFiles[2] = travis_yml
    /\ pOut = None

(***************************************************************************)
(* Properties of scrap_repos_file (specification SpecFile).                *)
(***************************************************************************)
\* The call has ended, by return or by an exception
FileEnded == fPc \in {"done", "raised"}

\* The users requested, in the order of the requests
RequestedUsers == [j \in 1..Len(fReqs) |-> fReqs[j].user]

\* The number of rows written for a user
RowsOf(user) == Cardinality({k \in 1..Len(fRows) : fRows[k].user = user})

\* C20 (as stated): called with from_row = n on a file of m rows
\* (1 <= n <= m), the ended call has sent no request for the users of rows
\* 1..n and exactly one request for each user of rows n+1..m, in file
\* order, and a failed request has written no row for its user.
C20_SkipsFirstRows ==
    (FileEnded /\ 1 <= from_row /\ from_row <= fUsers)
        => /\ RequestedUsers = [j \in 1..(fUsers - from_row) |-> from_row + j]
           /\ \A j \in 1..Len(fReqs) :
                 fReqs[j].r # "payload" => RowsOf(fReqs[j].user) = 0

(***************************************************************************)
(* Frame of process_repo (specification SpecProcess).                      *)
(***************************************************************************)
\* C21: process_repo never changes a candidate field: at every point of a
\* call, returned or not, each column of REPO_COLS is in the row with the
\* value the candidate came with.  The row holds no field beyond the
\* candidate columns, contributor_count and the seven enrichment fields;
\* a record that did not pass the inclusion gate holds no enrichment
\* field, and a returned one holds exactly the candidate columns and
\* contributor_count; a returned record that passed the gate holds all
\* seven enrichment fields as well.
C21_ProcessRepoFrame ==
    /\ \A k \in REPO_COLS : k \in DOMAIN row /\ row[k] = CandidateRow[k]
    /\ DOMAIN row \subseteq REPO_COLS \cup {"contributor_count"} \cup EnrichmentFields
    /\ (~IncludedRun => DOMAIN row \cap EnrichmentFields = {})
    /\ (prPc = "start" => DOMAIN row = REPO_COLS)
    /\ ((prPc = "done" /\ ~IncludedRun)
           => DOMAIN row = REPO_COLS \cup {"contributor_count"})
    /\ ((prPc = "done" /\ IncludedRun)
           => DOMAIN row = REPO_COLS \cup {"contributor_count"} \cup EnrichmentFields)

\* C21 witness: process_repo has returned an included record whose tags
\* field holds a tag and whose topics column still holds the candidate's
\* value.
C21_Witness ==
    /\ prPc = "done" /\ IncludedRun
    /\ "tags" \in DOMAIN row /\ row["tags"] # << >>
    /\ row["topics"] = CandidateRow["topics"]

(***************************************************************************)
(* Termination of the pagination loops (specification Spec).               *)
(***************************************************************************)
\* C22: both loops send finitely many requests and return, whatever the
\* API answers.  A loop that always returns has a measure that every turn
\* which does not end the call moves towards the exit test.  In
\* scrap_egy_contributors it is the page counter, which stays within the
\* last page of the largest total the API reports, so that the requests
\* are at most that many.  In scrap_non_egy_repos it is the number of rows
\* written, which is to reach the target count: back at the loop test,
\* every request sent so far has added at least one row, also a Success
\* response with an empty item list, so that the requests are at most
\* target_count.
C22_LoopsTerminate ==
    /\ (collector = "users" => Len(reqPages) <= max_page(MaxTotal))
    /\ ((collector = "repos" /\ pc = "loop") => repos_scraped >= Len(reqPages))
    /\ (collector = "repos" => Len(reqPages) <= target_count)

====
